---- MODULE Spec2Model ----
(***************************************************************************)
(* Reverse-mode gradient engine of tile/lang/ast/gradient.cc:              *)
(*   ComputeUses   - the explicit-stack use-graph builder,                 *)
(*   Gradient      - the memoised derivative propagator and the            *)
(*                   contraction differentiation rules,                    *)
(*   ComputeGradients - the entry point.                                   *)
(* Expressions live in a heap (a sequence of records); an expression's     *)
(* identity (the C++ pointer) is its index in the heap.                    *)
(***************************************************************************)
EXTENDS Naturals, Sequences, FiniteSets, TLC

\* ---------------------------------------------------------------- bounds
NumNodes == 3      \* forward expressions handed to ComputeGradients
MaxArgs == 2       \* arguments of a Call / inputs of a Contraction
MaxTargets == 2    \* length of the wrts vector
MaxEdges == 3      \* operand slots of a forward graph, all nodes together

Nodes == 1..NumNodes
Null == 0          \* the empty ExprPtr

\* ------------------------------------------------------- the expression IR
AggregationOps == {"SUM", "ASSIGN", "MIN", "MAX", "PROD"}
CombinationOps == {"NONE", "MULTIPLY", "PLUS", "COND", "EQ"}
NoSpec == <<"none", 0, 0>>
NoOutput == [index_spec |-> NoSpec, dims |-> Null]

\* One record shape for every expression class; fields a class does not have
\* hold their empty value.  rank is 1 when shape.dims.size() is nonzero (the
\* code only ever tests the size against zero), 0 for a scalar.
MkExpr(kind, fn, args, agg, combo, inputs, output, constraints, def, value, rank) ==
  [kind |-> kind, fn |-> fn, args |-> args, agg_op |-> agg, combo_op |-> combo,
   inputs |-> inputs, output |-> output, constraints |-> constraints,
   use_default |-> def, value |-> value, rank |-> rank]

MkLeaf(kind, value, rank) ==
  MkExpr(kind, "", <<>>, "", "", <<>>, NoOutput, NoSpec, Null, value, rank)

\* TensorSpecExpr(ref, index_spec): an input of a contraction.
TensorSpec(ref, spec) == [ref |-> ref, index_spec |-> spec]

\* TensorSpecExpr(index_spec, output_dims): the output of a contraction;
\* dims names the expression whose shape.dims_as_exprs() it carries.
OutputSpec(spec, owner) == [index_spec |-> spec, dims |-> owner]

MkContraction(agg, combo, inputs, output, constraints, def, rank) ==
  MkExpr("ContractionExpr", "", <<>>, agg, combo, inputs, output, constraints,
         def, 0, rank)

\* A contraction of the forward graph stored at heap index n.  Its index
\* polynomials and constraints are opaque and pairwise distinct.
ForwardContraction(n, agg, combo, refs, def, rank) ==
  MkContraction(agg, combo,
                [i \in 1..Len(refs) |-> TensorSpec(refs[i], <<"in", n, i>>)],
                OutputSpec(<<"out", n, 0>>, n), <<"cons", n, 0>>, def, rank)

\* shape inference of a call built by MakeCall (elementwise broadcast; the
\* reduction takes the shape of its second argument)
CallRank(h, fn, args) ==
  IF fn = "simple_reduce" THEN h[args[2]].rank
  ELSE IF \E i \in 1..Len(args) : h[args[i]].rank # 0 THEN 1 ELSE 0

MakeCall(h, fn, args) ==
  MkExpr("CallExpr", fn, args, "", "", <<>>, NoOutput, NoSpec, Null, 0,
         CallRank(h, fn, args))

\* ------------------------------------------------------ the forward graphs
\* Operation names of forward calls: one with a registered derivative, the
\* three names CallOp intercepts, and one the registry does not know.
CallFns == {"add", "tuple", "element", "reshape", "undef"}
Registered == {"add"}

\* Contractions of the forward graphs: one configuration for each way
\* ContractionOp can go.  (OpInit below draws every configuration.)
ForwardCions ==
  {<<"SUM", "MULTIPLY">>, <<"ASSIGN", "NONE">>, <<"MAX", "NONE">>,
   <<"PROD", "NONE">>, <<"SUM", "EQ">>}

ArgSeqs(L, k) == [1..k -> 1..L]

\* Nothing reads the class of a leaf but the visitor's dispatch, whose four
\* leaf cases are the same empty body: the scalar leaf at position n is given
\* one class.  Constants and dimension expressions are scalars; a parameter
\* may be a tensor.
ScalarLeafKind(n) ==
  <<"FloatConst", "IntConst", "DimExprExpr", "ParamExpr">>[((n - 1) % 4) + 1]

Leaves(n) == {MkLeaf(ScalarLeafKind(n), 0, 0), MkLeaf("ParamExpr", 0, 1)}

\* The operations node n of a forward graph g may be when it has e operand
\* slots (arguments, inputs and default); operands are older nodes (a DAG).
ForwardCalls(g, n, e) ==
  IF e > MaxArgs THEN {}
  ELSE {MakeCall(g, f, a) : f \in CallFns, a \in ArgSeqs(n - 1, e)}

ForwardContractions(n, e) ==
  (IF e > MaxArgs THEN {}
   ELSE {ForwardContraction(n, c[1], c[2], a, Null, r) :
           c \in ForwardCions, a \in ArgSeqs(n - 1, e), r \in 0..1})
  \cup
  (IF e < 2 \/ e - 1 > MaxArgs THEN {}
   ELSE {ForwardContraction(n, c[1], c[2], a, d, r) :
           c \in ForwardCions, a \in ArgSeqs(n - 1, e - 1), d \in 1..(n - 1),
           r \in 0..1})

NodeOptions(g, n, e) ==
  IF e = 0 THEN Leaves(n)
  ELSE IF n = 1 THEN {}
  ELSE ForwardCalls(g, n, e) \cup ForwardContractions(n, e)

\* the forward graphs of n nodes with exactly e operand slots in all
RECURSIVE Graphs(_, _)
Graphs(n, e) ==
  IF n = 0 THEN (IF e = 0 THEN {<<>>} ELSE {})
  ELSE UNION {UNION {{Append(g, o) : o \in NodeOptions(g, n, e - k)} :
                       g \in Graphs(n - 1, k)} : k \in 0..e}

\* ------------------------------------------------------------------ state
VARIABLES
  heap,      \* every expression alive; index = identity
  pc,        \* position of ComputeGradients
  seed,      \* Gradient's err: the loss, or the wrapper built around it
  stack_,    \* ComputeUses::stack_ (top is the last element)
  cu_seen_,  \* ComputeUses::seen_
  uses_,     \* ComputeUses::uses_ : used expression -> sequence of UseInfo
  seen_,     \* Gradient::seen_ : expression -> its derivative
  wrts,      \* the targets requested so far
  ret,       \* ComputeGradients' result vector
  frames,    \* activation records of GetDerivative (top is the last element)
  result,    \* value just returned by a GetDerivative call to its caller
  error,     \* message of the exception that ended the call, "" if none
  nexpand,   \* history: how often ComputeUses expanded each expression
  built,     \* history: how often GetDerivative built each expression's total
  op_in,     \* a differentiation rule applied on its own: its arguments
  op_out     \* ... and its outcome

cuVars == <<stack_, cu_seen_, uses_, nexpand>>
grVars == <<seen_, frames, result, built>>
ioVars == <<wrts, ret, error>>
opVars == <<op_in, op_out>>
vars == <<heap, pc, seed, cuVars, grVars, ioVars, opVars>>

Top(s) == s[Len(s)]
Pop(s) == SubSeq(s, 1, Len(s) - 1)
Count(f, k) == IF k \in DOMAIN f THEN f[k] ELSE 0
Bump(f, k) == [x \in DOMAIN f \cup {k} |-> IF x = k THEN Count(f, k) + 1 ELSE f[x]]
EmptyMap == [x \in {} |-> Null]
Put(f, k, v) == [x \in DOMAIN f \cup {k} |-> IF x = k THEN v ELSE f[x]]
NoOp == [fn |-> "", dout |-> Null, op |-> Null, idx |-> 0]
NoOutcome == [err |-> "", new |-> <<>>, val |-> Null]

Idle ==
  /\ seed = Null
  /\ stack_ = <<>>
  /\ cu_seen_ = {}
  /\ uses_ = EmptyMap
  /\ seen_ = EmptyMap
  /\ wrts = <<>>
  /\ ret = <<>>
  /\ frames = <<>>
  /\ result = Null
  /\ error = ""
  /\ nexpand = EmptyMap
  /\ built = EmptyMap
  /\ op_in = NoOp
  /\ op_out = NoOutcome

Init ==
  /\ heap \in UNION {Graphs(NumNodes, e) : e \in 0..MaxEdges}
  /\ pc = "start"
  /\ Idle

\* ---------------------------------------------------------- ComputeGradients
\* lines 251-267: wrap a non-scalar loss in a full SUM reduction, then start
\* Gradient's constructor, whose first member is the ComputeUses traversal.
ComputeGradients(loss) ==
  /\ pc = "start"
  /\ LET w == Len(heap) + 1 IN
       IF heap[loss].rank # 0
         THEN /\ heap' = Append(heap, ForwardContraction(w, "SUM", "NONE", <<loss>>, Null, 0))
              /\ seed' = w
              /\ stack_' = <<w>>
         ELSE /\ heap' = heap
              /\ seed' = loss
              /\ stack_' = <<loss>>
  /\ pc' = "uses"
  /\ UNCHANGED <<cu_seen_, uses_, nexpand, grVars, ioVars, opVars>>

\* ---------------------------------------------------------------- ComputeUses
\* Push: record the use and stack the used expression.
Push(st, user, used, idx) ==
  [uses |-> Put(st.uses, used,
                Append(IF used \in DOMAIN st.uses THEN st.uses[used] ELSE <<>>,
                       [expr |-> user, idx |-> idx])),
   stack |-> Append(st.stack, used)]

\* the for loop of Visit(CallExpr) / Visit(ContractionExpr) from position i on
RECURSIVE PushFrom(_, _, _, _)
PushFrom(st, user, operands, i) ==
  IF i >= Len(operands) THEN st
  ELSE PushFrom(Push(st, user, operands[i + 1], i), user, operands, i + 1)

InputRefs(e) == [i \in 1..Len(e.inputs) |-> e.inputs[i].ref]

\* the loop head of the constructor: expr is the popped top of the stack
Popped(expr) ==
  /\ pc = "uses"
  /\ stack_ # <<>>
  /\ expr = Top(stack_)

\* Expand without line 29: the popped expression is not marked seen
ExpandUnmarked(expr, st) ==
  /\ cu_seen_' = cu_seen_
  /\ nexpand' = Bump(nexpand, expr)
  /\ uses_' = st.uses
  /\ stack_' = st.stack
  /\ UNCHANGED <<heap, pc, seed, grVars, ioVars, opVars>>

\* lines 29-30: mark expr seen and run its visitor, which leaves st
Expand(expr, st) ==
  /\ cu_seen_' = cu_seen_ \cup {expr}
  /\ nexpand' = Bump(nexpand, expr)
  /\ uses_' = st.uses
  /\ stack_' = st.stack
  /\ UNCHANGED <<heap, pc, seed, grVars, ioVars, opVars>>

\* line 28 false: the popped expression was expanded before
AlreadySeen ==
  \E expr \in DOMAIN heap :
    /\ Popped(expr)
    /\ expr \in cu_seen_
    /\ stack_' = Pop(stack_)
    /\ UNCHANGED <<heap, pc, seed, cu_seen_, uses_, nexpand, grVars, ioVars, opVars>>

VisitCallExpr ==
  \E expr \in DOMAIN heap :
    /\ Popped(expr)
    /\ expr \notin cu_seen_
    /\ heap[expr].kind = "CallExpr"
    /\ Expand(expr, PushFrom([uses |-> uses_, stack |-> Pop(stack_)], expr,
                             heap[expr].args, 0))

VisitContractionExpr ==
  \E expr \in DOMAIN heap :
    /\ Popped(expr)
    /\ expr \notin cu_seen_
    /\ heap[expr].kind = "ContractionExpr"
    /\ LET e == heap[expr]
           st == PushFrom([uses |-> uses_, stack |-> Pop(stack_)], expr, InputRefs(e), 0)
       IN Expand(expr, IF e.use_default # Null
                         THEN Push(st, expr, e.use_default, Len(e.inputs))
                         ELSE st)

VisitLeaf(kind) ==
  \E expr \in DOMAIN heap :
    /\ Popped(expr)
    /\ expr \notin cu_seen_
    /\ heap[expr].kind = kind
    /\ Expand(expr, [uses |-> uses_, stack |-> Pop(stack_)])

VisitDimExprExpr == VisitLeaf("DimExprExpr")
VisitFloatConst == VisitLeaf("FloatConst")
VisitIntConst == VisitLeaf("IntConst")
VisitParamExpr == VisitLeaf("ParamExpr")

\* ComputeUses::uses is std::unordered_map::at, which throws
\* std::out_of_range for an expression that has no entry
HasUses(m, expr) == expr \in DOMAIN m
uses(expr) == uses_[expr]

\* ------------------------------------------------------------------ Gradient
\* GradientCtor seeding the cache with 0.0 instead of 1.0
GradientCtorZero ==
  /\ pc = "uses"
  /\ stack_ = <<>>
  /\ heap' = Append(heap, MkLeaf("FloatConst", 0, 0))
  /\ seen_' = Put(seen_, seed, Len(heap) + 1)
  /\ pc' = "grad"
  /\ UNCHANGED <<seed, cuVars, frames, result, built, ioVars, opVars>>

\* Gradient's constructor body, run once ComputeUses has drained its stack.
GradientCtor ==
  /\ pc = "uses"
  /\ stack_ = <<>>
  /\ heap' = Append(heap, MkLeaf("FloatConst", 1, 0))
  /\ seen_' = Put(seen_, seed, Len(heap) + 1)
  /\ pc' = "grad"
  /\ UNCHANGED <<seed, cuVars, frames, result, built, ioVars, opVars>>

\* Outcome of a differentiation rule: an exception message, or the returned
\* expression val together with the expressions the rule allocated.
Ok(val, new) == [err |-> "", new |-> new, val |-> val]
Throw(msg) == [err |-> msg, new |-> <<>>, val |-> Null]

DefaultOp(h, dout, op) == Ok(dout, <<>>)

\* the for loop of SumOp from position i on; dop carries inputs and combo_op
RECURSIVE SumOpLoop(_, _, _, _, _)
SumOpLoop(e, dout, idx, i, dop) ==
  IF i >= Len(e.inputs) THEN dop
  ELSE IF idx = i
    THEN SumOpLoop(e, dout, idx, i + 1,
                   [dop EXCEPT !.inputs = Append(@, TensorSpec(dout, e.output.index_spec))])
  ELSE IF e.combo_op = "MULTIPLY"
    THEN SumOpLoop(e, dout, idx, i + 1,
                   [dop EXCEPT !.inputs = Append(@, e.inputs[i + 1]),
                               !.combo_op = "MULTIPLY"])
  ELSE IF e.combo_op = "PLUS"
    THEN SumOpLoop(e, dout, idx, i + 1, [dop EXCEPT !.combo_op = "NONE"])
  ELSE IF e.combo_op = "COND"
    THEN [dop EXCEPT !.err = "Gradient of sum of conditionals not supported"]
  ELSE IF e.combo_op = "NONE"
    THEN [dop EXCEPT !.err = "Unexpected multiple inputs found when differentiating contraction with NONE combination op"]
  ELSE IF e.combo_op = "EQ"
    THEN [dop EXCEPT !.err = "Gradient of sum of equalities not supported"]
  ELSE [dop EXCEPT !.err = "Failed to recognize combination op during differentiation"]

\* SumOp that gives dop the forward output's index spec
SumOpForwardOutput(h, dout, op, idx) ==
  LET e == h[op] IN
  IF idx = Len(e.inputs)
    THEN Throw("A default tensor fell through to the SumOp case during Gradient")
  ELSE
    LET dop == SumOpLoop(e, dout, idx, 0, [err |-> "", inputs |-> <<>>, combo_op |-> "NONE"])
        input == e.inputs[idx + 1]
    IN IF dop.err # "" THEN Throw(dop.err)
       ELSE Ok(Len(h) + 1,
               <<MkContraction("SUM", dop.combo_op, dop.inputs,
                               OutputSpec(e.output.index_spec, input.ref),
                               e.constraints, Null, h[input.ref].rank)>>)

SumOp(h, dout, op, idx) ==
  LET e == h[op] IN
  IF idx = Len(e.inputs)
    THEN Throw("A default tensor fell through to the SumOp case during Gradient")
  ELSE
    LET dop == SumOpLoop(e, dout, idx, 0, [err |-> "", inputs |-> <<>>, combo_op |-> "NONE"])
        input == e.inputs[idx + 1]
    IN IF dop.err # "" THEN Throw(dop.err)
       ELSE Ok(Len(h) + 1,
               <<MkContraction("SUM", dop.combo_op, dop.inputs,
                               OutputSpec(input.index_spec, input.ref),
                               e.constraints, Null, h[input.ref].rank)>>)

ExtremeOp(h, dout, op, idx) ==
  LET e == h[op]
      input == e.inputs[1]
  IN Ok(Len(h) + 1,
        <<MkContraction("SUM", "COND",
                        <<input, TensorSpec(op, e.output.index_spec),
                          TensorSpec(dout, e.output.index_spec)>>,
                        OutputSpec(input.index_spec, input.ref),
                        e.constraints, Null, h[input.ref].rank)>>)

\* ContractionOp that sends PROD down the SUM path
ContractionOpProdAsSum(h, dout, op, idx) ==
  LET e == h[op] IN
  IF e.use_default # Null /\ idx = Len(e.inputs) THEN DefaultOp(h, dout, op)
  ELSE IF e.combo_op = "EQ" THEN Ok(Len(h) + 1, <<MkLeaf("IntConst", 0, 0)>>)
  ELSE IF e.agg_op \in {"SUM", "ASSIGN", "PROD"} THEN SumOp(h, dout, op, idx)
  ELSE IF e.agg_op \in {"MIN", "MAX"} THEN ExtremeOp(h, dout, op, idx)
  ELSE Throw("Invalid ContractionExpr in ContractionOp")

ContractionOp(h, dout, op, idx) ==
  LET e == h[op] IN
  IF e.use_default # Null /\ idx = Len(e.inputs) THEN DefaultOp(h, dout, op)
  ELSE IF e.combo_op = "EQ" THEN Ok(Len(h) + 1, <<MkLeaf("IntConst", 0, 0)>>)
  ELSE IF e.agg_op \in {"SUM", "ASSIGN"} THEN SumOp(h, dout, op, idx)
  ELSE IF e.agg_op \in {"MIN", "MAX"} THEN ExtremeOp(h, dout, op, idx)
  ELSE IF e.agg_op = "PROD"
    THEN Throw("PROD AggregationOp does not support differentiation")
  ELSE Throw("Invalid ContractionExpr in ContractionOp")

\* DerivRegistry::Resolve: fails for a name nobody registered
Resolve(fn) ==
  IF fn \in Registered THEN Ok(Null, <<>>)
  ELSE Throw("Invalid derivative: Unknown function")

\* element idx of what the registered rule returns for (op, dout, op->args):
\* an expression of the rule's making, with the shape of dout
DerivFn(h, op, dout, idx) ==
  MkExpr("DerivExpr", h[op].fn, <<op, dout>>, "", "", <<>>, NoOutput, NoSpec,
         Null, idx, h[dout].rank)

\* CallOp that answers zero where it has no rule
CallOpZero(h, dout, op, idx) ==
  IF h[op].fn \in Registered THEN Ok(Len(h) + 1, <<DerivFn(h, op, dout, idx)>>)
  ELSE Ok(Len(h) + 1, <<MkLeaf("FloatConst", 0, 0)>>)

CallOp(h, dout, op, idx) ==
  LET fn == h[op].fn IN
  IF fn = "tuple" THEN Throw("Not implemented: tuple in CallOp")
  ELSE IF fn = "element" THEN Throw("Not implemented: element in CallOp")
  ELSE IF fn = "reshape" THEN Throw("Not implemented: reshape in CallOp")
  ELSE IF Resolve(fn).err # "" THEN Resolve(fn)
  ELSE Ok(Len(h) + 1, <<DerivFn(h, op, dout, idx)>>)

\* the dispatch of GetDerivative's loop body (lines 90-96)
LocalGradient(h, dout, use) ==
  IF h[use.expr].kind = "CallExpr" THEN CallOp(h, dout, use.expr, use.idx)
  ELSE IF h[use.expr].kind = "ContractionExpr"
    THEN ContractionOp(h, dout, use.expr, use.idx)
  ELSE Throw("Invalid operation type in Gradient::GetDerivative")

\* Accumulate that keeps only the last contribution
AccumulateLast(h, total, dop) == Ok(dop, <<>>)

\* lines 97-101: total = dop, or add(total, dop)
Accumulate(h, total, dop) ==
  IF total = Null THEN Ok(dop, <<>>)
  ELSE Ok(Len(h) + 1, <<MakeCall(h, "add", <<total, dop>>)>>)

\* lines 103-107: the zero fallback and the reduction to the target's shape
Finalize(h, total, expr) ==
  IF total = Null THEN Ok(Len(h) + 1, <<MkLeaf("FloatConst", 0, 0)>>)
  ELSE IF h[total].rank # 0
    THEN Ok(Len(h) + 1, <<MakeCall(h, "simple_reduce", <<total, expr>>)>>)
  ELSE Ok(total, <<>>)

\* Emplace that forgets to insert
EmplaceNothing(m, k, v) == m

\* std::map::emplace: inserts only when the key is absent
Emplace(m, k, v) == IF k \in DOMAIN m THEN m ELSE Put(m, k, v)

Frame(expr) == [expr |-> expr, phase |-> "enter", i |-> 0, total |-> Null]

\* a GetDerivative call returns val: to the calling GetDerivative, or into
\* ret[i] of ComputeGradients (line 270)
Return(val) ==
  /\ frames' = Pop(frames)
  /\ IF Len(frames) = 1
       THEN ret' = Append(ret, val) /\ result' = Null
       ELSE ret' = ret /\ result' = val

\* an exception leaves ComputeGradients: nothing catches it
Raise(msg) ==
  /\ pc' = "failed"
  /\ error' = msg
  /\ frames' = <<>>
  /\ result' = Null
  /\ UNCHANGED <<heap, seed, cuVars, seen_, built, wrts, ret, opVars>>

Running == pc = "grad" /\ frames # <<>>

\* lines 81-85: the cache holds the derivative
CacheHit(m, expr) == expr \in DOMAIN m

GetDerivativeCached ==
  /\ Running
  /\ Top(frames).phase = "enter"
  /\ CacheHit(seen_, Top(frames).expr)
  /\ Return(seen_[Top(frames).expr])
  /\ UNCHANGED <<heap, pc, seed, cuVars, seen_, built, wrts, error, opVars>>

\* lines 86-87: a miss; the loop asks ComputeUses for the uses
GetDerivativeMiss ==
  /\ Running
  /\ Top(frames).phase = "enter"
  /\ ~CacheHit(seen_, Top(frames).expr)
  /\ IF HasUses(uses_, Top(frames).expr)
       THEN /\ frames' = [frames EXCEPT ![Len(frames)].phase = "loop"]
            /\ UNCHANGED <<heap, pc, seed, cuVars, seen_, result, built, ioVars, opVars>>
       ELSE Raise("std::out_of_range")

\* line 89: dout = GetDerivative(use.expr)
GetDerivativeRecurse ==
  /\ Running
  /\ Top(frames).phase = "loop"
  /\ Top(frames).i < Len(uses(Top(frames).expr))
  /\ frames' = Append([frames EXCEPT ![Len(frames)].phase = "call"],
                      Frame(uses(Top(frames).expr)[Top(frames).i + 1].expr))
  /\ UNCHANGED <<heap, pc, seed, cuVars, seen_, result, built, ioVars, opVars>>

\* lines 90-101: the rule of the consumer, then the accumulation
GetDerivativeUse ==
  /\ Running
  /\ Top(frames).phase = "call"
  /\ result # Null
  /\ LET f == Top(frames)
         dop == LocalGradient(heap, result, uses(f.expr)[f.i + 1])
         h1 == heap \o dop.new
         total == Accumulate(h1, f.total, dop.val)
     IN IF dop.err # "" THEN Raise(dop.err)
        ELSE /\ heap' = h1 \o total.new
             /\ frames' = [frames EXCEPT ![Len(frames)] =
                             [f EXCEPT !.phase = "loop", !.i = f.i + 1,
                                       !.total = total.val]]
             /\ result' = Null
             /\ UNCHANGED <<pc, seed, cuVars, seen_, built, ioVars, opVars>>

\* lines 103-110: after the loop
GetDerivativeFinish ==
  /\ Running
  /\ Top(frames).phase = "loop"
  /\ Top(frames).i >= Len(uses(Top(frames).expr))
  /\ LET f == Top(frames)
         total == Finalize(heap, f.total, f.expr)
     IN /\ heap' = heap \o total.new
        /\ seen_' = Emplace(seen_, f.expr, total.val)
        /\ built' = Bump(built, f.expr)
        /\ Return(total.val)
  /\ UNCHANGED <<pc, seed, cuVars, wrts, error, opVars>>

\* line 270: the loop of ComputeGradients asks for the next target; wrts is
\* the caller's input, revealed one element at a time
RequestTarget(t) ==
  /\ pc = "grad"
  /\ frames = <<>>
  /\ Len(wrts) < MaxTargets
  /\ wrts' = Append(wrts, t)
  /\ frames' = <<Frame(t)>>
  /\ UNCHANGED <<heap, pc, seed, cuVars, seen_, result, built, ret, error, opVars>>

\* line 272: every target served
ComputeGradientsReturn ==
  /\ pc = "grad"
  /\ frames = <<>>
  /\ pc' = "returned"
  /\ UNCHANGED <<heap, seed, cuVars, grVars, ioVars, opVars>>

Next ==
  \/ \E loss \in Nodes : ComputeGradients(loss)
  \/ AlreadySeen
  \/ VisitCallExpr
  \/ VisitContractionExpr
  \/ VisitDimExprExpr
  \/ VisitFloatConst
  \/ VisitIntConst
  \/ VisitParamExpr
  \/ GradientCtor
  \/ \E t \in Nodes : RequestTarget(t)
  \/ GetDerivativeCached
  \/ GetDerivativeMiss
  \/ GetDerivativeRecurse
  \/ GetDerivativeUse
  \/ GetDerivativeFinish
  \/ ComputeGradientsReturn

Spec == Init /\ [][Next]_vars

\* ------------------------------------------- the rules applied on their own
\* A contraction op of N inputs over leaves 1..N, with leaf N+1 as its default
\* when it has one, and an upstream gradient dout: every aggregation, every
\* combination, scalar and tensor operands.
OpGraph(N, ranks, agg, combo, def, doutRank) ==
  [i \in 1..(N + 1) |-> MkLeaf("ParamExpr", 0, ranks[i])]
    \o <<ForwardContraction(N + 2, agg, combo, [i \in 1..N |-> i],
                            IF def THEN N + 1 ELSE Null, 0),
         MkLeaf("ParamExpr", 0, doutRank)>>

OpInit ==
  /\ \E N \in 1..MaxArgs :
       \E ranks \in [1..(N + 1) -> 0..1], agg \in AggregationOps,
          combo \in CombinationOps, def \in BOOLEAN, doutRank \in 0..1 :
         heap = OpGraph(N, ranks, agg, combo, def, doutRank)
  /\ pc = "op"
  /\ Idle

OpNode == Len(heap) - 1
OpDout == Len(heap)

Apply(fn, idx, out) ==
  /\ pc = "op"
  /\ op_in' = [fn |-> fn, dout |-> OpDout, op |-> OpNode, idx |-> idx]
  /\ op_out' = out
  /\ heap' = heap \o out.new
  /\ pc' = "opdone"
  /\ UNCHANGED <<seed, cuVars, grVars, ioVars>>

\* ContractionOp at every position 0..N (N is the default slot)
ApplyContractionOp ==
  \E idx \in 0..Len(heap[OpNode].inputs) :
    Apply("ContractionOp", idx, ContractionOp(heap, OpDout, OpNode, idx))

\* SumOp on a SUM or ASSIGN contraction
ApplySumOp ==
  \E idx \in 0..Len(heap[OpNode].inputs) :
    /\ pc = "op"
    /\ heap[OpNode].agg_op \in {"SUM", "ASSIGN"}
    /\ Apply("SumOp", idx, SumOp(heap, OpDout, OpNode, idx))

\* ExtremeOp on a MIN or MAX contraction
ApplyExtremeOp ==
  \E idx \in 0..(Len(heap[OpNode].inputs) - 1) :
    /\ pc = "op"
    /\ heap[OpNode].agg_op \in {"MIN", "MAX"}
    /\ Apply("ExtremeOp", idx, ExtremeOp(heap, OpDout, OpNode, idx))

OpNext == ApplyContractionOp \/ ApplySumOp \/ ApplyExtremeOp

OpSpec == OpInit /\ [][OpNext]_vars

\* ============================================================== properties
\* The forward dependency graph, read off the expressions themselves.
OperandsOf(h, n) ==
  IF h[n].kind = "CallExpr" THEN h[n].args
  ELSE IF h[n].kind = "ContractionExpr"
    THEN InputRefs(h[n]) \o (IF h[n].use_default # Null THEN <<h[n].use_default>> ELSE <<>>)
  ELSE <<>>

RECURSIVE ReachSet(_, _)
ReachSet(h, S) ==
  LET U == S \cup UNION {{OperandsOf(h, n)[i] : i \in 1..Len(OperandsOf(h, n))} : n \in S}
  IN IF U = S THEN S ELSE ReachSet(h, U)

Reachable == IF seed = Null THEN {} ELSE ReachSet(heap, {seed})

\* the forward edges into n from consumers reachable from the seed
EdgesInto(n) ==
  UNION {{[expr |-> c, idx |-> j - 1] :
            j \in {i \in 1..Len(OperandsOf(heap, c)) : OperandsOf(heap, c)[i] = n}} :
          c \in Reachable}

BuilderDone == pc \in {"grad", "returned", "failed"}
Zero == MkLeaf("FloatConst", 0, 0)
One == MkLeaf("FloatConst", 1, 0)
OutOfRange == "std::out_of_range"

\* target i of wrts is being served, or was the one whose call failed
Served(i) == i <= Len(ret)
FailedAt(i) == pc = "failed" /\ Len(ret) = i - 1 /\ Len(wrts) = i

\* ---------------------------------------------------------------------- C1
\* C1: for every target that is not reachable from the seed, the call
\* succeeds and the gradient returned for that target is the literal
\* FloatConst 0.0 of GetDerivative's zero fallback.
C1_UnreachableTargetIsZero ==
  \A i \in 1..Len(wrts) :
    wrts[i] \notin Reachable =>
      /\ ~FailedAt(i)
      /\ Served(i) => heap[ret[i]] = Zero

\* ---------------------------------------------------------------------- C6
\* C6: once the use-graph builder has finished, every node reachable from the
\* seed, the seed included, has a use-list that uses() returns without
\* failure.
C6_EveryReachableNodeHasUseList ==
  BuilderDone => \A n \in Reachable : HasUses(uses_, n)

\* the part of C6 that the code does keep: the use-graph never changes once
\* the builder has finished, and every reachable node but the seed has a list
C6_UseGraphFrozen ==
  /\ [](BuilderDone => \A n \in Reachable \ {seed} : HasUses(uses_, n))
  /\ [][BuilderDone => uses_' = uses_]_vars

\* ---------------------------------------------------------------------- C7
\* identity of the FloatConst 1.0 that Gradient's constructor allocates
SeedDerivative == IF seed \in Nodes THEN NumNodes + 1 ELSE NumNodes + 2

\* C7: for a scalar loss the seed is the loss; its cache entry, the literal
\* 1.0, is there before any derivative is requested, is never replaced nor
\* recomputed, and is what every request for the loss returns.
C7_SeedIsOne ==
  /\ (wrts # <<>> \/ frames # <<>>) => seed \in DOMAIN seen_
  /\ seed \in DOMAIN seen_ =>
       /\ seen_[seed] = SeedDerivative
       /\ heap[seen_[seed]] = One
       /\ Count(built, seed) = 0
  /\ \A i \in 1..Len(ret) :
       (seed \in Nodes /\ wrts[i] = seed) => ret[i] = SeedDerivative /\ heap[ret[i]] = One

C7_Witness ==
  /\ pc = "returned"
  /\ seed \in Nodes
  /\ Len(ret) = 2
  /\ wrts[1] # seed
  /\ wrts[2] = seed
  /\ heap[ret[1]] # One
  /\ heap[ret[2]] = One

\* ---------------------------------------------------------------------- C3
C3_Inv ==
  /\ \A n \in DOMAIN built : built[n] <= 1
  /\ DOMAIN built \subseteq DOMAIN seen_
  /\ \A n \in DOMAIN seen_ : seen_[n] \in DOMAIN heap

\* what the GetDerivative call on top of the stack hands back in this step
Returned == IF Len(frames) = 1 THEN ret'[Len(ret')] ELSE result'

C3_Step ==
  /\ \A n \in DOMAIN seen_ : n \in DOMAIN seen_' /\ seen_'[n] = seen_[n]
  /\ (Running /\ pc' = "grad" /\ frames' = Pop(frames)) =>
       /\ Top(frames).expr \in DOMAIN seen_'
       /\ Returned = seen_'[Top(frames).expr]

\* C3: within one ComputeGradients call each node's derivative is built at
\* most once, a cache entry once written is never replaced or removed, and
\* every GetDerivative call returns the object the cache holds for its node.
C3_Memoized == []C3_Inv /\ [][C3_Step]_vars

\* a target asked for twice, served from the cache the second time
C3_Witness ==
  /\ Len(ret) = 2
  /\ wrts[1] = wrts[2]
  /\ wrts[1] # seed
  /\ Count(built, wrts[1]) = 1
  /\ ret[1] = ret[2]

\* ---------------------------------------------------------------------- C9
\* every expansion pops one entry and pushes at most MaxArgs + 1
Variant == Cardinality(Reachable \ cu_seen_) * (MaxArgs + 2) + Len(stack_)

C9_Inv ==
  /\ \A n \in DOMAIN nexpand : nexpand[n] <= 1 /\ n \in Reachable
  /\ pc = "uses" => /\ frames = <<>> /\ wrts = <<>> /\ seen_ = EmptyMap
                    /\ ENABLED (AlreadySeen \/ VisitCallExpr \/ VisitContractionExpr
                                  \/ VisitDimExprExpr \/ VisitFloatConst \/ VisitIntConst
                                  \/ VisitParamExpr \/ GradientCtor)
  /\ BuilderDone => /\ stack_ = <<>>
                    /\ \A n \in Reachable : Count(nexpand, n) = 1

C9_Step == (pc = "uses" /\ pc' = "uses") => Variant' < Variant

\* C9: the traversal of ComputeUses ends with an empty stack after expanding
\* every node reachable from the root exactly once, however often the node
\* was pushed, and no derivative is requested before it has ended.
C9_TraversalTerminates == []C9_Inv /\ [][C9_Step]_vars

\* a node pushed twice and expanded once
C9_Witness ==
  /\ pc = "grad"
  /\ \E n \in Reachable : HasUses(uses_, n) /\ Len(uses_[n]) >= 2 /\ nexpand[n] = 1

\* ---------------------------------------------------------------------- C5
\* The failures of the error taxonomy, read off the forward graph: use u
\* (consumer, position) has no differentiation rule.
UnsupportedUse(u) ==
  LET e == heap[u.expr] IN
  IF e.kind = "CallExpr"
    THEN e.fn \in {"tuple", "element", "reshape"} \/ e.fn \notin Registered
  ELSE IF e.kind = "ContractionExpr"
    THEN IF e.use_default # Null /\ u.idx = Len(e.inputs) THEN FALSE
         ELSE IF e.combo_op = "EQ" THEN FALSE
         ELSE IF e.agg_op \in {"SUM", "ASSIGN"}
           THEN \/ u.idx = Len(e.inputs)
                \/ Len(e.inputs) > 1 /\ e.combo_op \in {"COND", "NONE"}
         ELSE e.agg_op \notin {"MIN", "MAX"}
  ELSE TRUE

\* the derivative of n needs an unsupported use somewhere between n and the seed
RECURSIVE FailsAbove(_)
FailsAbove(n) ==
  \E u \in EdgesInto(n) : UnsupportedUse(u) \/ (u.expr # seed /\ FailsAbove(u.expr))

\* C5: a failure raised while a target's derivative is computed ends the
\* whole call: nothing is returned for that target, no zero takes the place
\* of the failing derivative, the call never returns a gradient list, and
\* nothing runs after the failure.
C5_FailureAbortsCall ==
  /\ pc = "returned" => error = "" /\ Len(ret) = Len(wrts)
  /\ \A i \in 1..Len(wrts) :
       FailsAbove(wrts[i]) =>
         /\ ~Served(i)
         /\ frames = <<>> => FailedAt(i) /\ error \notin {"", OutOfRange}
  /\ pc = "failed" => error # "" /\ ~ENABLED Next

\* the first target was served, the second one failed
C5_Witness ==
  /\ pc = "failed"
  /\ Len(wrts) = 2
  /\ Len(ret) = 1
  /\ Count(built, wrts[1]) = 1
  /\ FailsAbove(wrts[2])

\* ---------------------------------------------------------------------- C4
\* the use-list of n holds each forward edge into n exactly once
UseListIsEdges(n) ==
  /\ HasUses(uses_, n)
  /\ Len(uses_[n]) = Cardinality(EdgesInto(n))
  /\ {uses_[n][j] : j \in 1..Len(uses_[n])} = EdgesInto(n)

\* d is the local gradient of use u, given the cached derivative of u's consumer
LocalMatches(d, u) ==
  /\ u.expr \in DOMAIN seen_
  /\ LET r == LocalGradient(heap, seen_[u.expr], u) IN
       /\ r.err = ""
       /\ IF r.new = <<>> THEN d = r.val ELSE heap[d] = r.new[1]

\* t is the chain of "add" calls over the local gradients of the first k uses of n
RECURSIVE SumMatches(_, _, _)
SumMatches(t, n, k) ==
  IF k = 1 THEN LocalMatches(t, uses_[n][1])
  ELSE /\ heap[t].kind = "CallExpr"
       /\ heap[t].fn = "add"
       /\ Len(heap[t].args) = 2
       /\ LocalMatches(heap[t].args[2], uses_[n][k])
       /\ SumMatches(heap[t].args[1], n, k - 1)

\* d is that sum, reduced to the shape of n when the sum is not a scalar
ReducedSumMatches(d, n) ==
  \/ heap[d].rank = 0 /\ SumMatches(d, n, Len(uses_[n]))
  \/ /\ heap[d].kind = "CallExpr"
     /\ heap[d].fn = "simple_reduce"
     /\ Len(heap[d].args) = 2
     /\ heap[d].args[2] = n
     /\ heap[heap[d].args[1]].rank # 0
     /\ SumMatches(heap[d].args[1], n, Len(uses_[n]))

\* C4 as stated: for every non-seed node n reachable from the seed the
\* use-list holds one record per forward edge into n from a reachable
\* consumer, and GetDerivative(n) is the chain of "add" calls over exactly
\* one local gradient per record.
C4_DerivativeIsSum ==
  BuilderDone =>
    \A n \in Reachable \ {seed} :
      /\ UseListIsEdges(n)
      /\ n \in DOMAIN seen_ => SumMatches(seen_[n], n, Len(uses_[n]))

\* C4 amended: ... and GetDerivative(n) is that chain when the chain is a
\* scalar, and simple_reduce(chain, n) when the chain has nonzero rank.
C4_DerivativeIsReducedSum ==
  BuilderDone =>
    \A n \in Reachable \ {seed} :
      /\ UseListIsEdges(n)
      /\ n \in DOMAIN seen_ => ReducedSumMatches(seen_[n], n)

\* x consumed twice by the same consumer, as in add(x, x), its derivative built
C4_Witness ==
  \E n \in DOMAIN seen_ \ {seed} :
    /\ Len(uses_[n]) = 2
    /\ uses_[n][1].expr = uses_[n][2].expr
    /\ uses_[n][1].idx # uses_[n][2].idx
    /\ heap[seen_[n]].fn = "simple_reduce"
    /\ heap[heap[seen_[n]].args[1]].fn = "add"

\* ------------------------------------------------- the rules on their own
Applied == pc = "opdone"
OpE == heap[op_in.op]
OpN == Len(OpE.inputs)
AtDefaultSlot == OpE.use_default # Null /\ op_in.idx = OpN
OpResult == heap[op_out.val]
\* dout indexed by the forward output's index spec
DoutTerm == TensorSpec(op_in.dout, OpE.output.index_spec)
ProdMessage == "PROD AggregationOp does not support differentiation"

ViaContractionOp == Applied /\ op_in.fn = "ContractionOp"

\* ---------------------------------------------------------------------- C2
\* C2 as stated: ContractionOp on a PROD contraction raises the
\* unsupported-operation failure at every position, the default slot
\* included, and for every combination.
C2_ProdAlwaysFails ==
  (ViaContractionOp /\ OpE.agg_op = "PROD") =>
    op_out.err = ProdMessage /\ op_out.val = Null

\* C2 amended: ContractionOp on a PROD contraction raises that failure at
\* every position and for every combination except two: at the default slot
\* of a contraction that has a default it returns dout itself, and otherwise
\* with combination EQ it returns the integer constant 0.
C2_ProdFailsButDefaultAndEq ==
  (ViaContractionOp /\ OpE.agg_op = "PROD") =>
    IF AtDefaultSlot
      THEN op_out.err = "" /\ op_out.val = op_in.dout /\ op_out.new = <<>>
    ELSE IF OpE.combo_op = "EQ"
      THEN op_out.err = "" /\ OpResult = MkLeaf("IntConst", 0, 0)
    ELSE op_out.err = ProdMessage /\ op_out.val = Null /\ op_out.new = <<>>

\* an input position of a PROD contraction that has a default
C2_Witness ==
  /\ ViaContractionOp
  /\ OpE.agg_op = "PROD"
  /\ OpE.use_default # Null
  /\ OpE.combo_op = "MULTIPLY"
  /\ op_in.idx < OpN
  /\ op_out.err = ProdMessage

\* ---------------------------------------------------------------------- C8
\* SumOp ran: applied directly, or reached through ContractionOp
SumOpApplied ==
  /\ Applied
  /\ \/ op_in.fn = "SumOp"
     \/ /\ op_in.fn = "ContractionOp"
        /\ OpE.agg_op \in {"SUM", "ASSIGN"}
        /\ ~AtDefaultSlot
        /\ OpE.combo_op # "EQ"

\* the forward inputs with position idx replaced by the dout term
InputsWithDout == [i \in 1..OpN |-> IF i = op_in.idx + 1 THEN DoutTerm ELSE OpE.inputs[i]]

SumOpCommon ==
  /\ (op_in.idx < OpN /\ OpE.combo_op = "PLUS") =>
       op_out.err = "" /\ OpResult.inputs = <<DoutTerm>> /\ OpResult.combo_op = "NONE"
  /\ (op_in.idx < OpN /\ OpE.combo_op \in {"COND", "NONE", "EQ"} /\ OpN > 1) =>
       op_out.err # "" /\ op_out.val = Null
  /\ op_in.idx = OpN =>
       op_out.err = "A default tensor fell through to the SumOp case during Gradient"
  /\ op_out.err = "" =>
       /\ OpResult.kind = "ContractionExpr"
       /\ OpResult.agg_op = "SUM"
       /\ OpResult.constraints = OpE.constraints
       /\ OpResult.output.index_spec = OpE.inputs[op_in.idx + 1].index_spec

\* C8 as stated: with combination MULTIPLY the result has the N forward
\* inputs with position idx replaced by the dout term, and combination
\* MULTIPLY; with PLUS only the dout term and combination NONE; COND, NONE or
\* EQ with N > 1 fail; idx = N is a logic fault; every result aggregates with
\* SUM, keeps the forward constraints and takes the differentiated input's
\* index spec as its output index spec.
C8_SumOpRule ==
  SumOpApplied =>
    /\ (op_in.idx < OpN /\ OpE.combo_op = "MULTIPLY") =>
         /\ op_out.err = ""
         /\ OpResult.inputs = InputsWithDout
         /\ OpResult.combo_op = "MULTIPLY"
    /\ SumOpCommon

\* C8 amended: with combination MULTIPLY the result's combination is
\* MULTIPLY only when N > 1; on a single-input contraction the result is the
\* dout term alone with combination NONE, whatever the forward combination.
C8_SumOpRuleSingleInputIsNone ==
  SumOpApplied =>
    /\ (op_in.idx < OpN /\ OpE.combo_op = "MULTIPLY") =>
         /\ op_out.err = ""
         /\ OpResult.inputs = InputsWithDout
         /\ OpResult.combo_op = IF OpN > 1 THEN "MULTIPLY" ELSE "NONE"
    /\ (op_in.idx < OpN /\ OpN = 1) =>
         op_out.err = "" /\ OpResult.inputs = <<DoutTerm>> /\ OpResult.combo_op = "NONE"
    /\ SumOpCommon

\* the product rule at the second of two inputs
C8_Witness ==
  /\ SumOpApplied
  /\ OpN = 2
  /\ op_in.idx = 1
  /\ OpE.combo_op = "MULTIPLY"
  /\ op_out.err = ""
  /\ OpResult.inputs = <<OpE.inputs[1], DoutTerm>>
  /\ OpResult.combo_op = "MULTIPLY"

\* --------------------------------------------------------------------- C10
ExtremeOpApplied ==
  /\ Applied
  /\ op_in.idx < OpN
  /\ OpE.combo_op # "EQ"
  /\ \/ op_in.fn = "ExtremeOp"
     \/ /\ op_in.fn = "ContractionOp"
        /\ OpE.agg_op \in {"MIN", "MAX"}

\* C10: ExtremeOp on a MIN or MAX contraction, differentiated at input idx,
\* returns a SUM / COND contraction with the forward constraints and the
\* three inputs (first forward input, the forward node at the output's index
\* spec, dout at the output's index spec), whose output index spec and shape
\* are those of the input being differentiated.
C10_ExtremeOpRule ==
  ExtremeOpApplied =>
    /\ op_out.err = ""
    /\ OpResult.kind = "ContractionExpr"
    /\ OpResult.agg_op = "SUM"
    /\ OpResult.combo_op = "COND"
    /\ OpResult.constraints = OpE.constraints
    /\ OpResult.inputs = <<OpE.inputs[1], TensorSpec(op_in.op, OpE.output.index_spec), DoutTerm>>
    /\ OpResult.output = OutputSpec(OpE.inputs[op_in.idx + 1].index_spec,
                                    OpE.inputs[op_in.idx + 1].ref)
    /\ OpResult.rank = heap[OpE.inputs[op_in.idx + 1].ref].rank

\* what the code keeps of C10: the same with the output taken from the first
\* forward input, whatever idx is
C10_ExtremeOpKeyedOffFirstInput ==
  ExtremeOpApplied =>
    /\ op_out.err = ""
    /\ OpResult.agg_op = "SUM"
    /\ OpResult.combo_op = "COND"
    /\ OpResult.constraints = OpE.constraints
    /\ OpResult.inputs = <<OpE.inputs[1], TensorSpec(op_in.op, OpE.output.index_spec), DoutTerm>>
    /\ OpResult.output = OutputSpec(OpE.inputs[1].index_spec, OpE.inputs[1].ref)
    /\ OpResult.rank = heap[OpE.inputs[1].ref].rank
====
